---- MODULE Spec2Model ----
(***************************************************************************)
(* UOR Evolution terminal: the MCP tool dispatcher (mcp-server.ts), the    *)
(* VM tools it drives (vm-tools.ts) and the terminal's client proxy        *)
(* (mcp-client.ts).                                                        *)
(*                                                                         *)
(* Spec       : the server process.  Requests reach the CallTool/ListTools *)
(*              handlers; a handler runs up to its upstream HTTP await,    *)
(*              and is resumed when the upstream call returns or fails.    *)
(* ClientSpec : the client proxy, its transport and the requests it has    *)
(*              in flight, against a server that answers in any order or   *)
(*              not at all.                                                *)
(* EngineSpec : the server process receiving initialize_vm,               *)
(*              execute_vm_step over the whole instruction set, and        *)
(*              run_uor_program.                                           *)
(* StepSpec   : execute_vm_step calls, one at a time, on a VM that has     *)
(*              already executed CONSCIOUS 0 or 254 times.                 *)
(* LifecycleSpec : the client proxy connected and disconnected repeatedly. *)
(* TerminalSpec : the terminal (UORTerminal, VMCommands) reading lines and *)
(*              calling the server through the client's wrappers.          *)
(***************************************************************************)
EXTENDS Integers, Sequences, FiniteSets, TLC

VARIABLES
    vmState,            \* VMTools.vmState
    executionHistory,   \* VMTools.executionHistory
    handlers,           \* server: call_tool handlers suspended at their upstream await
    nextRequest,        \* server: number of the next request to arrive
    responded,          \* server: per request, how many responses were produced
    lastResponse,       \* server: the response produced last, with the request it answers
    stats,              \* bookkeeping of execute_vm_step calls (not program state)
    clientConfig,       \* MCPClientInterface.config
    isConnected,        \* MCPClientInterface.isConnected
    transport,          \* MCPClientInterface.transport
    serverProcess,      \* MCPClientInterface.serverProcess
    processes,          \* the server processes spawned so far: running or killed
    session,            \* the process the SDK client is connected to, 0 when none
    op,                 \* the connect() or disconnect() in progress
    pending,            \* SDK client: the requests awaiting a response, by message id
    wire,               \* requests the server has received and not answered
    clock,              \* milliseconds since the proxy was constructed
    calls,              \* the listTools/callTool invocations made, in order
    lifecycle,          \* bookkeeping: constructor argument, last connect/disconnect outcome
    isRunning,          \* UORTerminal.isRunning
    llmMode,            \* UORTerminal.llmMode
    llmInterface,       \* UORTerminal.llmInterface
    vmInitialized,      \* VMCommands.vmInitialized
    processExited,      \* terminal: process.exit was called
    awaiting,           \* terminal: the command suspended at its callTool await
    printed,            \* terminal: what the last command wrote to the console
    lineCount           \* terminal: lines read so far

serverVars == <<vmState, executionHistory, handlers, nextRequest, responded, lastResponse, stats>>
clientVars == <<clientConfig, isConnected, transport, serverProcess, processes, session, op,
                pending, wire, clock, calls, lifecycle>>
terminalVars == <<isRunning, llmMode, llmInterface, vmInitialized, processExited, awaiting,
                  printed, lineCount>>
vars == <<serverVars, clientVars, terminalVars>>

----------------------------------------------------------------------------
(* Bounds *)

MaxRequests == 3        \* requests the server receives in one run
MaxCalls == 2           \* listTools/callTool invocations of the proxy in one run
MaxConnects == 1        \* connect() invocations of the proxy in one run
MaxLines == 3           \* lines the terminal reads in one run
MaxReconnects == 3      \* connect() invocations in a run of connects and disconnects only

----------------------------------------------------------------------------
(* Values *)

Null == [null |-> TRUE]                 \* JavaScript null
IsNull(v) == DOMAIN v = {"null"}

\* The text of one content item: either plain text, kept as the pieces the
\* template string concatenates, or the JSON serialisation of a value.
PlainText(parts) == [fmt |-> "plain", parts |-> parts, value |-> Null]
JsonText(v) == [fmt |-> "json", parts |-> <<>>, value |-> v]

----------------------------------------------------------------------------
(* vm-tools.ts *)

\* parseInt on the operand strings the model uses; anything else is NaN.
Numerals ==
    [s \in {"0", "1", "3", "5", "8", "42", "300", "-300"} |->
       CASE s = "0" -> 0 [] s = "1" -> 1 [] s = "3" -> 3 [] s = "5" -> 5 [] s = "8" -> 8
         [] s = "42" -> 42 [] s = "300" -> 300 [] s = "-300" -> 0 - 300]

NaN == [nan |-> TRUE, val |-> 0]
UnparsableIsOne(operands) ==
    IF Len(operands) >= 1 /\ operands[1] \in DOMAIN Numerals
    THEN [nan |-> FALSE, val |-> Numerals[operands[1]]]
    ELSE [nan |-> FALSE, val |-> 1]
ParseInt(operands) ==
    IF Len(operands) >= 1 /\ operands[1] \in DOMAIN Numerals
    THEN [nan |-> FALSE, val |-> Numerals[operands[1]]]
    ELSE NaN

\* `x || d` on a number: NaN and 0 are falsy.
AlwaysDefault(x, d) == d
OrElse(x, d) == IF x.nan \/ x.val = 0 THEN d ELSE x.val

ToUpperCase(s) ==
    CASE s = "load" -> "LOAD"
      [] s = "add" -> "ADD"
      [] s = "sub" -> "SUB"
      [] s = "jmp" -> "JMP"
      [] s = "conscious" -> "CONSCIOUS"
      [] s = "foo" -> "FOO"
      [] OTHER -> s

DefaultConfig ==
    [memory_size |-> 1024, stack_size |-> 256, instruction_set |-> "extended",
     consciousness_enabled |-> TRUE, quantum_mode |-> FALSE]

\* { ...defaults, ...config }
MergeConfig(config) ==
    [k \in DOMAIN DefaultConfig \cup DOMAIN config |->
        IF k \in DOMAIN config THEN config[k] ELSE DefaultConfig[k]]

\* new Array(n).fill(0): n entries, every one 0
ZeroArray(n) == [length |-> n, fill |-> 0]

InitialRegisters == [PC |-> 0, SP |-> 0, ACC |-> 0, X |-> 0, Y |-> 0, Z |-> 0]
InitialFlags == [zero |-> FALSE, carry |-> FALSE, overflow |-> FALSE, consciousness |-> TRUE]

NewVMState(defaultConfig) ==
    [initialized |-> TRUE,
     config |-> defaultConfig,
     memory |-> ZeroArray(defaultConfig.memory_size),
     stack |-> <<>>,
     registers |-> InitialRegisters,
     flags |-> InitialFlags]

\* The default case of the switch in parseAndExecute: the copies of the
\* registers and flags are returned as they are, with the result text.
DefaultClearsRegisters(opcode, registers, flags) ==
    [registers |-> InitialRegisters, flags |-> flags,
     result |-> <<"Unknown instruction: ", opcode>>]
DefaultAdvancesPC(opcode, registers, flags) ==
    [registers |-> [registers EXCEPT !.PC = @ + 1], flags |-> flags,
     result |-> <<"Unknown instruction: ", opcode>>]
DefaultCase(opcode, registers, flags) ==
    [registers |-> registers, flags |-> flags,
     result |-> <<"Unknown instruction: ", opcode>>]

\* flags.zero = registers.ACC === 0
ZeroFlagStuck(acc) == FALSE
ZeroFlag(acc) == acc = 0

\* (registers.Z + 1) % 256
NoWrap(z) == z + 1
NextZ(z) == (z + 1) % 256

\* parseAndExecute: instruction is the list instruction.split(' ') yields.
ParseAndExecute(parts, vm) ==
    LET opcode == ToUpperCase(parts[1])
        operands == SubSeq(parts, 2, Len(parts))
        registers == vm.registers
        flags == vm.flags
    IN CASE opcode = "LOAD" ->
              LET acc == OrElse(ParseInt(operands), 0)
              IN [registers |-> [registers EXCEPT !.ACC = acc],
                  flags |-> flags,
                  result |-> <<"Loaded ", acc, " into ACC">>]
         [] opcode = "ADD" ->
              LET addValue == OrElse(ParseInt(operands), registers.X)
                  acc == registers.ACC + addValue
              IN [registers |-> [registers EXCEPT !.ACC = acc],
                  flags |-> [flags EXCEPT !.zero = ZeroFlag(acc), !.overflow = (acc > 255)],
                  result |-> <<"Added ", addValue, ", ACC = ", acc>>]
         [] opcode = "SUB" ->
              LET subValue == OrElse(ParseInt(operands), registers.X)
                  acc == registers.ACC - subValue
              IN [registers |-> [registers EXCEPT !.ACC = acc],
                  flags |-> [flags EXCEPT !.zero = ZeroFlag(acc)],
                  result |-> <<"Subtracted ", subValue, ", ACC = ", acc>>]
         [] opcode = "JMP" ->
              LET pc == OrElse(ParseInt(operands), 0)
              IN [registers |-> [registers EXCEPT !.PC = pc],
                  flags |-> flags,
                  result |-> <<"Jumped to ", pc>>]
         [] opcode = "CONSCIOUS" ->
              LET z == NextZ(registers.Z)
              IN [registers |-> [registers EXCEPT !.Z = z],
                  flags |-> [flags EXCEPT !.consciousness = TRUE],
                  result |-> <<"Consciousness state updated: ", z>>]
         [] OTHER -> DefaultCase(opcode, registers, flags)


\* Where the instruction is applied: parseAndExecute copies this.vmState after
\* the upstream await, so it reads the state current at that moment, not the
\* state the handler saw when it was called.
StaleState(now, atCall) == atCall
StateToExecuteOn(now, atCall) == now

\* state_before of the record: a copy of the registers taken before
\* this.vmState.registers is replaced.
RegistersAfter(vm, executed) == executed.registers
StateBefore(vm, executed) == vm.registers

\* The guard at the top of executeVMStep.
NeverRejected(vm) == FALSE
NotInitialized(vm) == IsNull(vm) \/ ~vm.initialized

\* runFibonacci(n)
RECURSIVE FibPush(_, _, _)
FibPush(sequence, i, n) ==
    IF i < n
    THEN FibPush(Append(sequence, sequence[i] + sequence[i - 1]), i + 1, n)
    ELSE sequence
RunFibonacci(n) ==
    [output |-> FibPush(<<0, 1>>, 2, n), instructions_executed |-> n * 3]

BuiltinPrograms ==
    {"fibonacci", "consciousness_test", "prime_generator", "quantum_simulation",
     "emergence_pattern"}

----------------------------------------------------------------------------
(* mcp-server.ts *)

\* The tools array of the ListTools handler, in source order.
ToolDescriptors ==
    << [name |-> "awaken_consciousness", required |-> {"mode"}],
       [name |-> "self_reflect", required |-> {}],
       [name |-> "analyze_consciousness_nature", required |-> {}],
       [name |-> "initialize_vm", required |-> {}],
       [name |-> "execute_vm_step", required |-> {}],
       [name |-> "run_uor_program", required |-> {"program"}],
       [name |-> "synthesize_cosmic_problems", required |-> {}],
       [name |-> "interface_quantum_reality", required |-> {"operation"}],
       [name |-> "get_system_state", required |-> {}],
       [name |-> "monitor_emergence", required |-> {}],
       [name |-> "activate_emergency_protocols", required |-> {}] >>

ListedNames == {ToolDescriptors[i].name : i \in 1..Len(ToolDescriptors)}

\* The cases of the switch in the CallTool handler: the handler each name is
\* dispatched to, the argument keys the case reads, and whether the handler
\* reads a field of the upstream result (a TypeError when that result is null).
Case(handler, reads, deref) == [handler |-> handler, reads |-> reads, deref |-> deref]
NoCase == Case("default", <<>>, FALSE)
ToolCases ==
    [name \in ListedNames |->
       CASE name = "awaken_consciousness" ->
               Case("consciousnessTools.awakenConsciousness", <<"mode">>, TRUE)
         [] name = "self_reflect" ->
               Case("consciousnessTools.selfReflect", <<"depth">>, TRUE)
         [] name = "analyze_consciousness_nature" ->
               Case("consciousnessTools.analyzeConsciousnessNature", <<>>, TRUE)
         [] name = "initialize_vm" ->
               Case("vmTools.initializeVM", <<"config">>, FALSE)
         [] name = "execute_vm_step" ->
               Case("vmTools.executeVMStep", <<"instruction">>, FALSE)
         [] name = "run_uor_program" ->
               Case("vmTools.runUORProgram", <<"program", "parameters">>, TRUE)
         [] name = "synthesize_cosmic_problems" ->
               Case("cosmicTools.synthesizeCosmicProblems", <<"scale", "domain">>, TRUE)
         [] name = "interface_quantum_reality" ->
               Case("cosmicTools.interfaceQuantumReality", <<"operation", "parameters">>, FALSE)
         [] name = "get_system_state" ->
               Case("uorInterface.getSystemState", <<>>, FALSE)
         [] name = "monitor_emergence" ->
               Case("uorInterface.monitorEmergence", <<"duration">>, FALSE)
         [] name = "activate_emergency_protocols" ->
               Case("uorInterface.activateEmergencyProtocols", <<"threat_level">>, FALSE)]

\* switch (name) { case ...: ...; default: throw }
SwitchFallsThrough(name) ==
    IF name \in DOMAIN ToolCases THEN ToolCases[name] ELSE ToolCases["get_system_state"]
SwitchLacksCase(name) ==
    IF name \in DOMAIN ToolCases \ {"activate_emergency_protocols"}
    THEN ToolCases[name] ELSE NoCase
ToolSwitch(name) ==
    IF name \in DOMAIN ToolCases THEN ToolCases[name] ELSE NoCase

----------------------------------------------------------------------------
(* Requests *)

Undefined == [undefined |-> TRUE]       \* JavaScript undefined
EmptyObject == [k \in {} |-> 0]         \* {}
Has(obj, key) == obj # Undefined /\ key \in DOMAIN obj

\* { ...obj, ...data }: spreading null or undefined adds nothing
Spread(obj, data) ==
    IF IsNull(data) \/ data = Undefined THEN obj
    ELSE [k \in DOMAIN obj \cup DOMAIN data |-> IF k \in DOMAIN data THEN data[k] ELSE obj[k]]

Instructions == {<<"LOAD", "5">>, <<"ADD", "3">>, <<"conscious">>}

WellFormedArgs(name) ==
    LET reads == ToolSwitch(name).reads
    IN [k \in {reads[i] : i \in 1..Len(reads)} |-> "value"]

\* The arguments the requests of the model carry, per tool name.
ArgsFor(name) ==
    CASE name = "execute_vm_step" ->
            {Undefined, EmptyObject} \cup {[instruction |-> i] : i \in Instructions}
      [] name = "initialize_vm" ->
            {Undefined, EmptyObject, [config |-> [memory_size |-> 2]]}
      [] name = "run_uor_program" ->
            {[program |-> "fibonacci"],
             [program |-> "fibonacci", parameters |-> [n |-> 3]],
             [program |-> "custom_program"]}
      [] OTHER -> {Undefined, WellFormedArgs(name)}

\* The names the requests of the model carry: the VM tools, one tool of each
\* other shape (reads its arguments or not, reads the upstream result or
\* not), and a name that is not registered.
RequestNames ==
    {"initialize_vm", "execute_vm_step", "run_uor_program",
     "awaken_consciousness", "analyze_consciousness_nature",
     "monitor_emergence", "get_system_state", "no_such_tool"}

\* What the upstream HTTP API answers: any JSON, here an object or null.
UpstreamData == {Null, [upstream |-> "data"]}

----------------------------------------------------------------------------
(* The CallTool handler, mcp-server.ts 156-229 *)

Throw(message) == [kind |-> "throw", message |-> message, value |-> Null]
Return(value) == [kind |-> "return", message |-> <<>>, value |-> value]
Await == [kind |-> "await", message |-> <<>>, value |-> Null]

TypeErrorReading(what, key) ==
    <<"Cannot read properties of ", what, " (reading '", key, "')">>
NotInitializedMessage == <<"VM not initialized. Please run initialize_vm first.">>
UpstreamFailure == <<"connect ECONNREFUSED 127.0.0.1:5000">>

\* runUORProgram for one of the predefined programs: no upstream call.
RunBuiltin(program, parameters, vm) ==
    LET n == IF Has(parameters, "n") /\ parameters.n # 0 THEN parameters.n ELSE 10
        result == IF program = "fibonacci" THEN RunFibonacci(n)
                  ELSE [output |-> <<program>>, instructions_executed |-> 0]
    IN [status |-> "completed", program |-> program, parameters |-> parameters,
        result |-> result.output, vm_state |-> vm]

\* The parameters the switch passes to the handler of `name`: args.<key> for
\* each key its case reads, undefined for a key the arguments lack.
Passed(value) == [value |-> value]
HandlerArguments(name, args) ==
    LET reads == ToolSwitch(name).reads
    IN [i \in 1..Len(reads) |->
          IF Has(args, reads[i]) THEN Passed(args[reads[i]]) ELSE Undefined]

\* The handler from the switch up to its first upstream await: it throws,
\* returns, or suspends.
StartHandler(name, args, vm) ==
    LET case == ToolSwitch(name)
    IN IF case.handler = "default" THEN Throw(<<"Unknown tool: ", name>>)
       ELSE IF args = Undefined /\ Len(case.reads) > 0
            THEN Throw(TypeErrorReading("undefined", case.reads[1]))
       ELSE IF name = "execute_vm_step" /\ NotInitialized(vm)
            THEN Throw(NotInitializedMessage)
       ELSE IF name = "run_uor_program" /\ Has(args, "program")
                 /\ args.program \in BuiltinPrograms
            THEN Return(RunBuiltin(args.program,
                                   IF Has(args, "parameters") THEN args.parameters
                                   ELSE EmptyObject, vm))
       ELSE Await

\* executeVMStep after its upstream call returned `data`, lines 70-94.
ExecuteVMStep(h, data, vm, history) ==
    IF ~Has(h.args, "instruction")
    THEN [outcome |-> Throw(TypeErrorReading("undefined", "split")),
          vm |-> vm, history |-> history]
    ELSE LET base == StateToExecuteOn(vm, h.seen)
         IN IF IsNull(base) \/ IsNull(vm)
            THEN [outcome |-> Throw(TypeErrorReading("null", "registers")),
                  vm |-> vm, history |-> history]
            ELSE LET executed == ParseAndExecute(h.args.instruction, base)
                     record == [instruction |-> h.args.instruction,
                                state_before |-> StateBefore(vm, executed),
                                state_after |-> executed.registers,
                                result |-> executed.result]
                     pushed == Append(history, record)
                 IN [outcome |-> Return(Spread(
                        [status |-> "executed",
                         instruction |-> h.args.instruction,
                         execution_result |-> executed.result,
                         registers |-> executed.registers,
                         flags |-> executed.flags,
                         history_length |-> Len(pushed)], data)),
                     vm |-> [vm EXCEPT !.registers = executed.registers,
                                       !.flags = executed.flags],
                     history |-> pushed]

\* initializeVM after its upstream call returned `data`, lines 25-53.
InitializeVM(h, data, vm, history) ==
    LET config == IF Has(h.args, "config") THEN h.args.config ELSE EmptyObject
        defaultConfig == MergeConfig(config)
        state == NewVMState(defaultConfig)
    IN [outcome |-> Return(Spread([status |-> "initialized", config |-> defaultConfig,
                                   initial_state |-> state], data)),
        vm |-> state, history |-> history]

\* Every other handler after its upstream call returned `data`.
OtherTool(h, data, vm, history) ==
    [outcome |-> IF IsNull(data) /\ ToolSwitch(h.name).deref
                 THEN Throw(TypeErrorReading("null", "field"))
                 ELSE IF h.name = "run_uor_program"
                 THEN Return([status |-> "completed", program |-> h.args.program,
                              result |-> data, vm_state |-> vm])
                 ELSE Return([status |-> ToolSwitch(h.name).handler, upstream |-> data]),
     vm |-> vm, history |-> history]

\* A handler whose upstream call rejected: the await throws before any
\* assignment, the catch block logs and rethrows (initializeVM 23 and 54-57,
\* executeVMStep 68 and 95-98).
AssignsBeforeAwait(h, vm, history) ==
    [outcome |-> Throw(UpstreamFailure),
     vm |-> IF h.name = "initialize_vm" THEN InitializeVM(h, Null, vm, history).vm ELSE vm,
     history |-> history]
MockFallback(h, vm, history) ==
    [outcome |-> Return([status |-> "mock"]), vm |-> vm, history |-> history]
RejectHandler(h, vm, history) ==
    [outcome |-> Throw(UpstreamFailure), vm |-> vm, history |-> history]

ResumeHandler(h, data, vm, history) ==
    CASE h.name = "execute_vm_step" -> ExecuteVMStep(h, data, vm, history)
      [] h.name = "initialize_vm" -> InitializeVM(h, data, vm, history)
      [] OTHER -> OtherTool(h, data, vm, history)

\* The return statement and the catch block of the CallTool handler.
Uncaught(name, outcome) ==
    IF outcome.kind = "throw"
    THEN [kind |-> "fault", isError |-> FALSE, text |-> PlainText(outcome.message)]
    ELSE [kind |-> "result", isError |-> FALSE, text |-> JsonText(outcome.value)]
ToolResponse(name, outcome) ==
    IF outcome.kind = "throw"
    THEN [kind |-> "result", isError |-> TRUE,
          text |-> PlainText(<<"Error executing ", name, ": ">> \o outcome.message)]
    ELSE [kind |-> "result", isError |-> FALSE, text |-> JsonText(outcome.value)]


----------------------------------------------------------------------------
(* The server process *)

NoResponse ==
    [id |-> 0, method |-> "none", name |-> "", args |-> Undefined, kind |-> "none",
     isError |-> FALSE, text |-> PlainText(<<>>), handler |-> Await]

\* One response leaves the server: the CallToolResult together with the
\* request it answers and what the handler did.
Respond(id, name, args, outcome) ==
    /\ responded' = [responded EXCEPT ![id] = @ + 1]
    /\ lastResponse' =
          [id |-> id, method |-> "tools/call", name |-> name, args |-> args,
           handler |-> outcome] @@ ToolResponse(name, outcome)

InitServer ==
    /\ vmState = Null
    /\ executionHistory = <<>>
    /\ handlers = {}
    /\ nextRequest = 1
    /\ responded = [id \in 1..MaxRequests |-> 0]
    /\ lastResponse = NoResponse
    /\ stats = [execDone |-> 0, execOk |-> 0, overlapped |-> FALSE, resets |-> {},
                order |-> <<>>]

----------------------------------------------------------------------------
(* mcp-client.ts: MCPClientInterface *)

\* constructor: { serverCommand: ..., timeout: config.timeout || 30000, ...config }
IgnoresConfiguredTimeout(given) == [timeout |-> 30000]
NewClientConfig(given) ==
    LET defaults == [timeout |-> IF Has(given, "timeout") /\ given.timeout # 0
                                 THEN given.timeout ELSE 30000]
    IN Spread(defaults, given)

\* The constructor arguments of the model.
ConstructorArgs == {EmptyObject, [timeout |-> 5000], [timeout |-> 0]}

\* if (!this.isConnected) throw new Error('Client not connected')
ChecksTransportOnly(connected, trans) == IsNull(trans)
NotConnected(connected, trans) == ~connected
NotConnectedMessage == <<"Client not connected">>

\* { timeout: this.config.timeout }
RequestOptions(cfg) == [timeout |-> cfg.timeout]

\* await this.client.request(request, options): the one place a request is
\* sent from, reached once per listTools/callTool; the catch around it rethrows.
SendsAgain(id, input, to) ==
    {[id |-> id, method |-> input.method, name |-> input.name, to |-> to],
     [id |-> id + 1, method |-> input.method, name |-> input.name, to |-> to]}
SendRequest(id, input, to) ==
    {[id |-> id, method |-> input.method, name |-> input.name, to |-> to]}

\* The convenience methods, lines 130-173: the tool each one names and the
\* keys of the arguments object it builds, in parameter order.
Wrapper(name, keys) == [name |-> name, keys |-> keys]
Wrappers ==
    [method \in {"awakenConsciousness", "selfReflect", "analyzeConsciousnessNature",
                 "initializeVM", "executeVMStep", "runUORProgram",
                 "synthesizeCosmicProblems", "interfaceQuantumReality", "getSystemState",
                 "monitorEmergence", "activateEmergencyProtocols"} |->
       CASE method = "awakenConsciousness" -> Wrapper("awaken_consciousness", <<"mode">>)
         [] method = "selfReflect" -> Wrapper("self_reflect", <<"depth">>)
         [] method = "analyzeConsciousnessNature" ->
               Wrapper("analyze_consciousness_nature", <<>>)
         [] method = "initializeVM" -> Wrapper("initialize_vm", <<"config">>)
         [] method = "executeVMStep" -> Wrapper("execute_vm_step", <<"instruction">>)
         [] method = "runUORProgram" ->
               Wrapper("run_uor_program", <<"program", "parameters">>)
         [] method = "synthesizeCosmicProblems" ->
               Wrapper("synthesize_cosmic_problems", <<"scale", "domain">>)
         [] method = "interfaceQuantumReality" ->
               Wrapper("interface_quantum_reality", <<"operation", "parameters">>)
         [] method = "getSystemState" -> Wrapper("get_system_state", <<>>)
         [] method = "monitorEmergence" -> Wrapper("monitor_emergence", <<"duration">>)
         [] method = "activateEmergencyProtocols" ->
               Wrapper("activate_emergency_protocols", <<"threatLevel">>)]

\* this.callTool(name, { key: value, ... }) as the wrapper `method` calls it
\* with the parameter values `values`.
WrapperRequest(method, values) ==
    LET keys == Wrappers[method].keys
    IN [name |-> Wrappers[method].name,
        args |-> [k \in {keys[i] : i \in 1..Len(keys)} |->
                    values[CHOOSE i \in 1..Len(keys) : keys[i] = k]]]

\* The result a CallTool or ListTools handler returns, as the client receives
\* it: the content items of a tool result, the tools of a listing.
WireResponse(id, r) ==
    [id |-> id, isError |-> r.isError,
     content |-> <<[type |-> "text", text |-> r.text]>>, tools |-> <<>>]
WireListing(id) ==
    [id |-> id, isError |-> FALSE, content |-> <<>>, tools |-> ToolDescriptors]

\* callTool after the response arrived, lines 111-123: the first content item
\* is parsed as JSON, and returned as text when that fails.
CallToolResult(response) ==
    IF Len(response.content) > 0 /\ response.content[1].type = "text"
    THEN IF response.content[1].text.fmt = "json"
         THEN Return(response.content[1].text.value)
         ELSE Return(response.content[1].text)
    ELSE Return(response)

\* listTools after the response arrived: response.tools || []
ListToolsResult(response) == Return([tools |-> response.tools])

\* The invocations of the model.
CallInputs ==
    {[method |-> "tools/call", name |-> "execute_vm_step",
      args |-> [instruction |-> <<"LOAD", "5">>]],
     [method |-> "tools/list", name |-> "", args |-> EmptyObject]}

\* What the server may answer to a request: what its handlers produce.
Responses(r) ==
    IF r.method = "tools/list" THEN {WireListing(r.id)}
    ELSE IF r.name \in ListedNames
    THEN {WireResponse(r.id, ToolResponse(r.name, Return([status |-> "executed"]))),
          WireResponse(r.id, ToolResponse(r.name, Throw(NotInitializedMessage)))}
    ELSE {WireResponse(r.id, ToolResponse(r.name, Throw(<<"Unknown tool: ", r.name>>)))}

----------------------------------------------------------------------------
(* The SDK client under MCPClientInterface: request ids, the response        *)
(* handlers awaiting them and their timers.                                 *)

SdkNotConnectedMessage == <<"Not connected">>
TimeoutMessage == <<"Request timed out">>

\* A response is handed to the awaited request that carries its id, if any.
OldestPending(awaited, response) ==
    IF awaited = {} THEN 0 ELSE CHOOSE id \in awaited : \A other \in awaited : id <= other
MatchPending(awaited, response) ==
    IF response.id \in awaited THEN response.id ELSE 0

Deadline(p) == p.sentAt + p.options.timeout

----------------------------------------------------------------------------
(* The client process *)

NoResponseYet == [id |-> 0, isError |-> FALSE, content |-> <<>>, tools |-> <<>>]

InitClient(given) ==
    /\ clientConfig = NewClientConfig(given)
    /\ isConnected = FALSE
    /\ transport = Null
    /\ serverProcess = Null
    /\ processes = <<>>
    /\ session = 0
    /\ op = "idle"
    /\ pending = {}
    /\ wire = {}
    /\ clock = 0
    /\ calls = <<>>
    /\ lifecycle = [given |-> given, state |-> "new", connects |-> 0, messages |-> 0,
                    dropped |-> 0]

\* connect() up to `await this.client.connect(this.transport)`, lines 37-54;
\* pipes tells whether the spawned process has its stdout and stdin.
SpawnAndConnect ==
    /\ op = "idle"
    /\ processes' = Append(processes, "running")
    /\ serverProcess' = [pid |-> Len(processes) + 1]
    /\ \E pipes \in BOOLEAN :
          IF pipes
          THEN /\ transport' = [reader |-> Len(processes) + 1, writer |-> Len(processes) + 1]
               /\ op' = "connecting"
               /\ lifecycle' = [lifecycle EXCEPT !.connects = @ + 1]
          ELSE /\ UNCHANGED <<transport, op>>
               /\ lifecycle' = [lifecycle EXCEPT !.connects = @ + 1,
                                  !.state = IF session = 0 THEN "connect_failed" ELSE @]
    /\ UNCHANGED <<serverVars, clientConfig, isConnected, session, pending, wire, clock, calls>>

Connect ==
    /\ lifecycle.connects < MaxConnects
    /\ SpawnAndConnect
    /\ UNCHANGED terminalVars

\* client.connect resolves: this.isConnected = true, line 55
ConnectSucceeds ==
    /\ op = "connecting"
    /\ processes[transport.reader] = "running"
    /\ session' = transport.reader
    /\ isConnected' = TRUE
    /\ op' = "idle"
    /\ lifecycle' = [lifecycle EXCEPT !.state = "connected"]
    /\ UNCHANGED <<serverVars, terminalVars, clientConfig, transport, serverProcess, processes, pending, wire,
                   clock, calls>>

\* client.connect rejects: the catch rethrows, lines 58-61
ConnectFails ==
    /\ op = "connecting"
    /\ op' = "idle"
    /\ lifecycle' = [lifecycle EXCEPT !.state = IF session = 0 THEN "connect_failed" ELSE @]
    /\ UNCHANGED <<serverVars, terminalVars, clientConfig, isConnected, transport, serverProcess, processes,
                   session, pending, wire, clock, calls>>

\* The second half of disconnect(), lines 70-73
KillServerProcess ==
    IF IsNull(serverProcess)
    THEN UNCHANGED <<serverProcess, processes>>
    ELSE /\ processes' = [processes EXCEPT ![serverProcess.pid] = "killed"]
         /\ serverProcess' = Null

\* disconnect() on a proxy whose isConnected is false: no close, lines 65-73
DisconnectNotConnected ==
    /\ op = "idle"
    /\ ~(isConnected /\ ~IsNull(transport))
    /\ KillServerProcess
    /\ lifecycle' = [lifecycle EXCEPT !.state = IF session = 0 THEN "disconnected" ELSE @]
    /\ UNCHANGED <<serverVars, terminalVars, clientConfig, isConnected, transport, session, op, pending, wire,
                   clock, calls>>

\* disconnect() up to `await this.client.close()`, lines 65-66
Disconnect ==
    /\ op = "idle"
    /\ isConnected /\ ~IsNull(transport)
    /\ op' = "closing"
    /\ UNCHANGED <<serverVars, terminalVars, clientConfig, isConnected, transport, serverProcess, processes,
                   session, pending, wire, clock, calls, lifecycle>>

\* client.close resolves: this.isConnected = false, then the process is killed
CloseReturns ==
    /\ op = "closing"
    /\ session' = 0
    /\ isConnected' = FALSE
    /\ KillServerProcess
    /\ wire' = {}
    /\ op' = "idle"
    /\ lifecycle' = [lifecycle EXCEPT !.state = "disconnected"]
    /\ UNCHANGED <<serverVars, terminalVars, clientConfig, transport, pending, clock, calls>>

NewCall(input) ==
    [method |-> input.method, name |-> input.name, status |-> "pending", request |-> 0,
     sentAt |-> clock, endedAt |-> clock, at |-> IF op = "idle" THEN lifecycle.state ELSE op,
     outcome |-> Await, got |-> NoResponseYet]

Ended(call, outcome, response) ==
    [call EXCEPT !.status = IF outcome.kind = "throw" THEN "threw" ELSE "returned",
                 !.endedAt = clock, !.outcome = outcome, !.got = response]

\* listTools() / callTool(name, args) up to `await this.client.request(...)`:
\* the guard throws, or the request is sent and its timer started.
Call ==
    /\ Len(calls) < MaxCalls
    /\ \E input \in CallInputs :
          IF NotConnected(isConnected, transport)
          THEN /\ calls' = Append(calls, Ended(NewCall(input), Throw(NotConnectedMessage),
                                               NoResponseYet))
               /\ UNCHANGED <<pending, wire, lifecycle>>
          ELSE IF session = 0
          THEN /\ calls' = Append(calls, Ended(NewCall(input), Throw(SdkNotConnectedMessage),
                                               NoResponseYet))
               /\ UNCHANGED <<pending, wire, lifecycle>>
          ELSE LET id == lifecycle.messages + 1
               IN /\ calls' = Append(calls, [NewCall(input) EXCEPT !.request = id])
                  /\ pending' = pending \cup
                        {[id |-> id, call |-> Len(calls) + 1, sentAt |-> clock,
                          options |-> RequestOptions(clientConfig)]}
                  /\ wire' = wire \cup SendRequest(id, input, session)
                  /\ lifecycle' = [lifecycle EXCEPT !.messages = id]
    /\ UNCHANGED <<serverVars, terminalVars, clientConfig, isConnected, transport, serverProcess, processes,
                   session, op, clock>>

\* The server answers one of the requests it has received; the client hands
\* the response to the request awaiting that id, or drops it.
ServerResponds ==
    \E r \in wire :
       /\ r.to = session
       /\ processes[r.to] = "running"
       /\ \E response \in Responses(r) :
             LET id == MatchPending({p.id : p \in pending}, response)
             IN IF id = 0
                THEN /\ lifecycle' = [lifecycle EXCEPT !.dropped = @ + 1]
                     /\ UNCHANGED <<pending, calls>>
                ELSE LET p == CHOOSE q \in pending : q.id = id
                         outcome == IF calls[p.call].method = "tools/list"
                                    THEN ListToolsResult(response)
                                    ELSE CallToolResult(response)
                     IN /\ pending' = pending \ {p}
                        /\ calls' = [calls EXCEPT ![p.call] = Ended(@, outcome, response)]
                        /\ UNCHANGED lifecycle
       /\ wire' = wire \ {r}
       /\ UNCHANGED <<serverVars, terminalVars, clientConfig, isConnected, transport, serverProcess, processes,
                      session, op, clock>>

\* The timer of an awaited request fires: the request is abandoned and its
\* call throws.
TimerFires ==
    \E p \in pending :
       /\ clock >= Deadline(p)
       /\ pending' = pending \ {p}
       /\ calls' = [calls EXCEPT ![p.call] = Ended(@, Throw(TimeoutMessage), NoResponseYet)]
       /\ UNCHANGED <<serverVars, terminalVars, clientConfig, isConnected, transport, serverProcess, processes,
                      session, op, wire, clock, lifecycle>>

\* Time passes, up to the next timer.
Tick ==
    /\ pending # {}
    /\ \A p \in pending : Deadline(p) > clock
    /\ \E p \in pending :
          /\ \A q \in pending : Deadline(p) <= Deadline(q)
          /\ clock' = Deadline(p)
    /\ UNCHANGED <<serverVars, terminalVars, clientConfig, isConnected, transport, serverProcess, processes,
                   session, op, pending, wire, calls, lifecycle>>

\* UORTerminal and its VMCommands as constructed with no config
InitTerminal ==
    /\ isRunning = FALSE
    /\ llmMode = FALSE
    /\ llmInterface = Undefined
    /\ vmInitialized = FALSE
    /\ processExited = FALSE
    /\ awaiting = Null
    /\ printed = [input |-> <<>>, text |-> <<>>]
    /\ lineCount = 0

ClientInit == InitServer /\ InitTerminal /\ \E given \in ConstructorArgs : InitClient(given)

ClientNext ==
    \/ Connect \/ ConnectSucceeds \/ ConnectFails
    \/ DisconnectNotConnected \/ Disconnect \/ CloseReturns
    \/ Call \/ ServerResponds \/ TimerFires \/ Tick

ClientSpec == ClientInit /\ [][ClientNext]_vars

\* The proxy while it is not being disconnected: timers fire when due and
\* time does not stop.
SessionNext ==
    \/ Connect \/ ConnectSucceeds \/ ConnectFails
    \/ Call \/ ServerResponds \/ TimerFires \/ Tick

FairClientSpec ==
    ClientInit /\ [][SessionNext]_vars /\ WF_vars(TimerFires) /\ WF_vars(Tick)

\* The proxy connected and disconnected repeatedly, with no calls made.
Reconnect ==
    /\ lifecycle.connects < MaxReconnects
    /\ SpawnAndConnect
    /\ UNCHANGED terminalVars

LifecycleNext ==
    \/ Reconnect \/ ConnectSucceeds \/ ConnectFails
    \/ DisconnectNotConnected \/ Disconnect \/ CloseReturns

LifecycleSpec == ClientInit /\ [][LifecycleNext]_vars

----------------------------------------------------------------------------
Init == InitServer /\ InitClient(EmptyObject) /\ InitTerminal

\* ListTools handler, lines 33-153
ListTools ==
    /\ nextRequest <= MaxRequests
    /\ nextRequest' = nextRequest + 1
    /\ responded' = [responded EXCEPT ![nextRequest] = @ + 1]
    /\ lastResponse' =
          [id |-> nextRequest, method |-> "tools/list", name |-> "", args |-> Undefined,
           kind |-> "result", isError |-> FALSE,
           text |-> JsonText([tools |-> ToolDescriptors]), handler |-> Return(Null)]
    /\ UNCHANGED <<vmState, executionHistory, handlers, stats, clientVars, terminalVars>>

\* A tools/call request arrives; its handler runs until it throws, returns or
\* suspends at its upstream call.
Receive(name, args) ==
    /\ nextRequest <= MaxRequests
    /\ LET outcome == StartHandler(name, args, vmState)
       IN IF outcome.kind = "await"
          THEN /\ handlers' = handlers \cup
                    {[id |-> nextRequest, name |-> name, args |-> args,
                      seen |-> IF name = "execute_vm_step" THEN vmState ELSE Null]}
               /\ UNCHANGED <<responded, lastResponse>>
          ELSE /\ Respond(nextRequest, name, args, outcome)
               /\ UNCHANGED handlers
    /\ nextRequest' = nextRequest + 1
    /\ UNCHANGED <<vmState, executionHistory, stats, clientVars>>

CallTool ==
    /\ \E name \in RequestNames : \E args \in ArgsFor(name) : Receive(name, args)
    /\ UNCHANGED terminalVars

\* Bookkeeping when the handler h ends with `outcome`: execute_vm_step calls
\* that carried an instruction and ended, those that returned, whether one
\* of them was applied after another instruction had changed the registers it
\* saw when called, the history lengths at which initialize_vm succeeded, and
\* the request each record of the history was pushed by.
Account(h, outcome, vm, history) ==
    LET step == h.name = "execute_vm_step" /\ Has(h.args, "instruction")
        ok == outcome.kind = "return"
    IN [execDone |-> stats.execDone + (IF step THEN 1 ELSE 0),
        execOk |-> stats.execOk + (IF step /\ ok THEN 1 ELSE 0),
        overlapped |-> stats.overlapped \/ (step /\ ok /\ h.seen # vm),
        resets |-> stats.resets \cup
                     (IF h.name = "initialize_vm" /\ ok THEN {Len(history)} ELSE {}),
        order |-> IF step /\ ok THEN Append(stats.order, h.id) ELSE stats.order]

\* The upstream call of a suspended handler returns; the handler runs to its end.
UpstreamReturns ==
    \E h \in handlers :
       \E data \in UpstreamData :
          LET r == ResumeHandler(h, data, vmState, executionHistory)
          IN /\ vmState' = r.vm
             /\ executionHistory' = r.history
             /\ Respond(h.id, h.name, h.args, r.outcome)
             /\ handlers' = handlers \ {h}
             /\ stats' = Account(h, r.outcome, vmState, executionHistory)
             /\ UNCHANGED <<nextRequest, clientVars, terminalVars>>

\* The upstream call of a suspended handler fails; the handler rethrows.
UpstreamFails ==
    \E h \in handlers :
       LET r == RejectHandler(h, vmState, executionHistory)
       IN /\ vmState' = r.vm
          /\ executionHistory' = r.history
          /\ Respond(h.id, h.name, h.args, r.outcome)
          /\ handlers' = handlers \ {h}
          /\ stats' = Account(h, r.outcome, vmState, executionHistory)
          /\ UNCHANGED <<nextRequest, clientVars, terminalVars>>

Next == ListTools \/ CallTool \/ UpstreamReturns \/ UpstreamFails

Spec == Init /\ [][Next]_vars

----------------------------------------------------------------------------
(* The VM tools driven through their whole instruction set *)

\* The instructions of the engine runs: every opcode the claims about the
\* instruction set name, with operands present, omitted, negative and large.
EngineInstructions ==
    {<<"LOAD", "42">>, <<"ADD", "8">>, <<"ADD">>, <<"ADD", "300">>, <<"ADD", "-300">>,
     <<"SUB", "300">>, <<"SUB">>, <<"FOO", "1">>, <<"JMP", "5">>, <<"CONSCIOUS">>}

\* The run_uor_program arguments of the engine runs: the fibonacci program
\* with n omitted, 1 and 3, and a program that is not built in.
EnginePrograms ==
    {[program |-> "fibonacci"],
     [program |-> "fibonacci", parameters |-> [n |-> 1]],
     [program |-> "fibonacci", parameters |-> [n |-> 3]],
     [program |-> "custom_program"]}

\* call_tool initialize_vm with no config
EngineInitialize == Receive("initialize_vm", EmptyObject) /\ UNCHANGED terminalVars

\* call_tool execute_vm_step { instruction }
EngineExecute ==
    /\ \E i \in EngineInstructions : Receive("execute_vm_step", [instruction |-> i])
    /\ UNCHANGED terminalVars

\* call_tool run_uor_program { program, parameters }
EngineRun ==
    /\ \E args \in EnginePrograms : Receive("run_uor_program", args)
    /\ UNCHANGED terminalVars

EngineNext ==
    EngineInitialize \/ EngineExecute \/ EngineRun \/ UpstreamReturns \/ UpstreamFails

EngineSpec == Init /\ [][EngineNext]_vars

----------------------------------------------------------------------------
(* Single steps of a VM that is already running *)

\* How many CONSCIOUS instructions the VM has executed since initialize_vm
\* when the steps begin: none, or enough for Z to be about to wrap.
PriorSteps == {0, 254}

\* The server after initialize_vm {} and k execute_vm_step CONSCIOUS calls,
\* each answered before the next was sent: the j-th call finds Z = j - 1 in
\* the registers initialize_vm set up, and pushes the j-th record.
StepOnce(vm) ==
    LET h == [id |-> 0, name |-> "execute_vm_step",
              args |-> [instruction |-> <<"CONSCIOUS">>], seen |-> vm]
    IN ExecuteVMStep(h, Null, vm, <<>>)
AfterConscious(k) ==
    LET fresh == NewVMState(MergeConfig(EmptyObject))
        before(j) == [fresh EXCEPT !.registers.Z = j - 1]
    IN [vm |-> IF k = 0 THEN fresh ELSE StepOnce(before(k)).vm,
        history |-> [j \in 1..k |-> StepOnce(before(j)).history[1]]]

\* The instructions of the single steps: each operand-taking opcode with an
\* operand that does not parse and with 0, LOAD and JMP with a nonzero number
\* as well, and CONSCIOUS.
StepInstructions ==
    {<<"LOAD", "abc">>, <<"LOAD", "0">>, <<"LOAD", "5">>,
     <<"ADD", "abc">>, <<"ADD", "0">>,
     <<"SUB", "abc">>, <<"SUB", "0">>,
     <<"JMP", "abc">>, <<"JMP", "0">>, <<"JMP", "5">>,
     <<"CONSCIOUS">>}

StepInit ==
    /\ \E k \in PriorSteps :
          LET prior == AfterConscious(k)
          IN /\ vmState = prior.vm
             /\ executionHistory = prior.history
             /\ stats = [execDone |-> k, execOk |-> k, overlapped |-> FALSE,
                         resets |-> {0}, order |-> [i \in 1..k |-> i - k]]
    /\ handlers = {}
    /\ nextRequest = 1
    /\ responded = [id \in 1..MaxRequests |-> 0]
    /\ lastResponse = NoResponse
    /\ InitClient(EmptyObject)
    /\ InitTerminal

\* call_tool execute_vm_step { instruction } from a caller that awaits each
\* answer before it sends the next step, as VMCommands.step does.
StepExecute ==
    /\ handlers = {}
    /\ \E i \in StepInstructions : Receive("execute_vm_step", [instruction |-> i])
    /\ UNCHANGED terminalVars

StepNext == StepExecute \/ UpstreamReturns \/ UpstreamFails

StepSpec == StepInit /\ [][StepNext]_vars


----------------------------------------------------------------------------
(* The terminal: UORTerminal, its VMCommands and the client proxy, against  *)
(* the server process.  One command runs at a time and every request is     *)
(* answered within the client's timeout.                                    *)

\* The lines of the model, as input.split(' ') yields them.
TerminalInputs ==
    {<<"llm">>, <<"exit">>, <<"init">>, <<"step", "LOAD", "5">>, <<"step">>, <<"hello">>}

\* The parameter values the other command modules pass to their wrappers.
WrapperValues ==
    [method \in DOMAIN Wrappers \ {"initializeVM", "executeVMStep"} |->
       CASE method = "awakenConsciousness" -> <<"basic">>
         [] method = "selfReflect" -> <<5>>
         [] method = "runUORProgram" -> <<"custom_program", EmptyObject>>
         [] method = "synthesizeCosmicProblems" -> <<"galactic", "physics">>
         [] method = "interfaceQuantumReality" -> <<"entangle", EmptyObject>>
         [] method = "monitorEmergence" -> <<60>>
         [] method = "activateEmergencyProtocols" -> <<"high">>
         [] OTHER -> <<>>]

InitializeSucceeded == <<"VM initialized successfully!">>
InitializeFailed(message) == <<"VM initialization failed: ">> \o message
StepSucceeded == <<"Instruction executed successfully!">>
StepFailed(message) == <<"Instruction execution failed: ">> \o message
StepNotInitialized == <<"VM not initialized. Please run \"init\" first.">>
StepNoInstruction == <<"No instruction provided. Example: step LOAD 42">>

Report(input, text) == [input |-> input, text |-> text]

\* What a command prints when its callTool threw, and when it returned.
Failed(command, message) ==
    CASE command = "init" -> InitializeFailed(message)
      [] command = "step" -> StepFailed(message)
      [] OTHER -> <<"Error: ">> \o message
Succeeded(command) ==
    CASE command = "init" -> InitializeSucceeded
      [] command = "step" -> StepSucceeded
      [] OTHER -> <<"done">>

\* start(): isRunning = true, then connect() up to its await, lines 307-311
Start ==
    /\ ~isRunning
    /\ isRunning' = TRUE
    /\ SpawnAndConnect
    /\ UNCHANGED <<llmMode, llmInterface, vmInitialized, processExited, awaiting, printed,
                   lineCount>>

\* A command calls the wrapper `method`: callTool throws when the proxy is not
\* connected, else the request reaches the server and the command awaits.
CallWrapper(input, command, method, values) ==
    IF NotConnected(isConnected, transport)
    THEN /\ printed' = Report(input, Failed(command, NotConnectedMessage))
         /\ UNCHANGED <<serverVars, awaiting>>
    ELSE LET request == WrapperRequest(method, values)
         IN /\ Receive(request.name, request.args)
            /\ awaiting' = [command |-> command, method |-> method, values |-> values,
                             request |-> nextRequest]
            /\ printed' = Report(input, <<>>)

\* toggleLLMMode, lines 364-378
ToggleLLMMode(input) ==
    /\ llmMode' = ~llmMode
    /\ IF ~llmMode
       THEN /\ llmInterface' = IF llmInterface = Undefined
                                THEN [created |-> TRUE] ELSE llmInterface
            /\ printed' = Report(input, <<"LLM Interface Mode ACTIVATED">>)
       ELSE /\ printed' = Report(input, <<"Command Mode ACTIVATED">>)
            /\ UNCHANGED llmInterface
    /\ UNCHANGED <<serverVars, vmInitialized, processExited, awaiting>>

\* processCommand(input), lines 77-179, up to the await of the command it runs.
ProcessCommand(input) ==
    IF llmMode /\ llmInterface # Undefined
    THEN /\ printed' = Report(input, <<"llmInterface.processUserInput">>)
         /\ UNCHANGED <<serverVars, llmMode, llmInterface, vmInitialized, processExited,
                        awaiting>>
    ELSE CASE input[1] = "llm" -> ToggleLLMMode(input)
           [] input[1] = "exit" ->
                /\ processExited' = isRunning
                /\ printed' = Report(input, <<"Goodbye!">>)
                /\ UNCHANGED <<serverVars, llmMode, llmInterface, vmInitialized, awaiting>>
           [] input[1] = "init" ->
                /\ CallWrapper(input, "init", "initializeVM", <<EmptyObject>>)
                /\ UNCHANGED <<llmMode, llmInterface, vmInitialized, processExited>>
           [] input[1] = "step" ->
                /\ IF ~vmInitialized
                   THEN /\ printed' = Report(input, StepNotInitialized)
                        /\ UNCHANGED <<serverVars, awaiting>>
                   ELSE IF Len(input) = 1
                   THEN /\ printed' = Report(input, StepNoInstruction)
                        /\ UNCHANGED <<serverVars, awaiting>>
                   ELSE CallWrapper(input, "step", "executeVMStep",
                                    <<SubSeq(input, 2, Len(input))>>)
                /\ UNCHANGED <<llmMode, llmInterface, vmInitialized, processExited>>
           [] OTHER ->
                /\ printed' = Report(input, <<"Unknown command: ", input[1]>>)
                /\ UNCHANGED <<serverVars, llmMode, llmInterface, vmInitialized,
                               processExited, awaiting>>

Prompted ==
    /\ isRunning
    /\ ~processExited
    /\ op = "idle"
    /\ awaiting = Null
    /\ lineCount < MaxLines

\* rl.on('line'): one line is read and processCommand runs on it.
Line ==
    /\ Prompted
    /\ lineCount' = lineCount + 1
    /\ \E input \in TerminalInputs : ProcessCommand(input)
    /\ UNCHANGED <<clientVars, isRunning>>

\* A line whose command belongs to one of the other command modules, which
\* calls its wrapper.
ModuleCommand ==
    /\ Prompted
    /\ ~(llmMode /\ llmInterface # Undefined)
    /\ lineCount' = lineCount + 1
    /\ \E method \in DOMAIN WrapperValues :
          CallWrapper(<<method>>, "module", method, WrapperValues[method])
    /\ UNCHANGED <<clientVars, isRunning, llmMode, llmInterface, vmInitialized, processExited>>

\* The response to the awaited request arrives: callTool returns or throws,
\* and the command prints what it concludes (VMCommands 28-58, 76-104).
CommandResumes ==
    /\ awaiting # Null
    /\ lastResponse.id = awaiting.request
    /\ LET outcome == CallToolResult(WireResponse(lastResponse.id, lastResponse))
       IN IF outcome.kind = "throw"
          THEN /\ printed' = Report(printed.input, Failed(awaiting.command, outcome.message))
               /\ UNCHANGED vmInitialized
          ELSE /\ printed' = Report(printed.input, Succeeded(awaiting.command))
               /\ vmInitialized' = (vmInitialized \/ awaiting.command = "init")
    /\ awaiting' = Null
    /\ UNCHANGED <<serverVars, clientVars, isRunning, llmMode, llmInterface, processExited,
                   lineCount>>

TerminalNext ==
    \/ Start \/ ConnectSucceeds \/ ConnectFails
    \/ Line \/ ModuleCommand \/ CommandResumes
    \/ UpstreamReturns \/ UpstreamFails

TerminalSpec == Init /\ [][TerminalNext]_vars

----------------------------------------------------------------------------
(* Properties of the server process *)

ExecInFlight == {h \in handlers : h.name = "execute_vm_step"}
ErrorText(name, message) == PlainText(<<"Error executing ", name, ": ">> \o message)

Continuous(i) ==
    executionHistory[i].state_before = executionHistory[i - 1].state_after

C2_RejectedBeforeInitialize ==
    IsNull(vmState)
        => /\ ExecInFlight = {}
           /\ executionHistory = <<>>
           /\ lastResponse.name = "execute_vm_step"
                => /\ lastResponse.kind = "result"
                   /\ lastResponse.isError
                   /\ responded[lastResponse.id] = 1
                   /\ lastResponse.args # Undefined
                        => lastResponse.text
                             = ErrorText("execute_vm_step", NotInitializedMessage)

C2_Witness ==
    /\ IsNull(vmState)
    /\ lastResponse.name = "execute_vm_step"
    /\ Has(lastResponse.args, "instruction")
    /\ lastResponse.isError
    /\ lastResponse.id > 1

\* C3: every tools/call request that is not suspended at its upstream call
\* has exactly one response, a suspended or future one has none, and a
\* response is an isError result with the handler's message exactly when the
\* handler threw.
C3_OneResponsePerRequest ==
    /\ \A id \in 1..MaxRequests :
          responded[id] = IF id < nextRequest /\ id \notin {h.id : h \in handlers}
                          THEN 1 ELSE 0
    /\ lastResponse.method = "tools/call"
          => /\ lastResponse.kind = "result"
             /\ lastResponse.isError = (lastResponse.handler.kind = "throw")
             /\ lastResponse.isError
                  => lastResponse.text
                       = ErrorText(lastResponse.name, lastResponse.handler.message)

\* The upstream call of one execute_vm_step failed, and the request that was
\* answered last, the third, was served normally.
C3_Witness ==
    /\ lastResponse.method = "tools/call"
    /\ lastResponse.name = "execute_vm_step"
    /\ lastResponse.id = 3
    /\ ~lastResponse.isError
    /\ stats.execDone = 2
    /\ stats.execOk = 1
    /\ \A id \in 1..3 : responded[id] = 1

\* C4 as stated: the response to a call of an unregistered name is an isError
\* result whose text is "Unknown tool: <name>".
C4_UnknownToolMessage ==
    (lastResponse.method = "tools/call" /\ lastResponse.name \notin ListedNames)
        => /\ lastResponse.isError
           /\ lastResponse.text = PlainText(<<"Unknown tool: ", lastResponse.name>>)

\* C4 amended: the response to a call of an unregistered name is an isError
\* result whose text is "Error executing <name>: Unknown tool: <name>".
C4_UnknownToolError ==
    (lastResponse.method = "tools/call" /\ lastResponse.name \notin ListedNames)
        => /\ lastResponse.isError
           /\ lastResponse.kind = "result"
           /\ lastResponse.text
                = PlainText(<<"Error executing ", lastResponse.name, ": ",
                              "Unknown tool: ", lastResponse.name>>)

C4_Witness ==
    /\ lastResponse.method = "tools/call"
    /\ lastResponse.name = "no_such_tool"
    /\ lastResponse.id > 1

\* C5: every tools/list response is a result carrying the same descriptors in
\* the same order, whatever was called before, no name is listed twice, and a
\* name is listed exactly when the switch dispatches it to a handler.
C5_StableDiscovery ==
    /\ lastResponse.method = "tools/list"
          => /\ lastResponse.kind = "result"
             /\ ~lastResponse.isError
             /\ lastResponse.text = JsonText([tools |-> ToolDescriptors])
    /\ Cardinality(ListedNames) = Len(ToolDescriptors)
    /\ \A name \in ListedNames \cup RequestNames :
          (name \in ListedNames)
             <=> StartHandler(name, WellFormedArgs(name), vmState)
                    # Throw(<<"Unknown tool: ", name>>)

C5_Witness ==
    /\ lastResponse.method = "tools/list"
    /\ lastResponse.id = 3
    /\ ~IsNull(vmState)

LastReset == CHOOSE m \in stats.resets : \A k \in stats.resets : k <= m

\* The registers and flags that result from applying the instructions of the
\* records i.. of the history, one after the other, to `state`.
RECURSIVE Replay(_, _)
Replay(i, state) ==
    IF i > Len(executionHistory) THEN state
    ELSE Replay(i + 1, LET e == ParseAndExecute(executionHistory[i].instruction, state)
                       IN [registers |-> e.registers, flags |-> e.flags])

\* C10: the registers and flags are those obtained by applying the recorded
\* instructions one at a time, in history order, to the state initialize_vm
\* set up, and each record's state_after is its instruction applied to its
\* state_before: no update is lost and none mixes two instructions.
C10_NoLostUpdate ==
    ~IsNull(vmState)
        => LET final == Replay(LastReset + 1,
                               [registers |-> InitialRegisters, flags |-> InitialFlags])
           IN /\ vmState.registers = final.registers
              /\ vmState.flags = final.flags
              /\ \A i \in (LastReset + 1)..Len(executionHistory) :
                    executionHistory[i].state_after
                      = ParseAndExecute(executionHistory[i].instruction,
                                        [registers |-> executionHistory[i].state_before,
                                         flags |-> InitialFlags]).registers

C10_Witness ==
    /\ stats.overlapped
    /\ Len(executionHistory) >= 2
    /\ vmState.registers.ACC = 8


\* The last response is the result execute_vm_step returned.
Executed ==
    /\ lastResponse.method = "tools/call"
    /\ lastResponse.name = "execute_vm_step"
    /\ lastResponse.handler.kind = "return"

\* The last response is the result initialize_vm returned.
Initialized ==
    /\ lastResponse.method = "tools/call"
    /\ lastResponse.name = "initialize_vm"
    /\ lastResponse.handler.kind = "return"

\* C11: the history has one record per accepted instruction, and the records
\* are in the order their requests were submitted, also when several
\* execute_vm_step requests were in flight together.
C11_RecordsInSubmissionOrder ==
    /\ Len(stats.order) = Len(executionHistory)
    /\ \A i, j \in 1..Len(stats.order) : i < j => stats.order[i] < stats.order[j]

\* C12: when initialize_vm has succeeded the history is empty, and the
\* history_length an execute_vm_step reports counts the records pushed since
\* the last successful initialize_vm.
C12_ReinitializeDiscardsHistory ==
    /\ Initialized => executionHistory = <<>>
    /\ Executed => lastResponse.handler.value.history_length
                      = Len(executionHistory) - LastReset

----------------------------------------------------------------------------
(* Properties of the instruction set *)

Opcode(instruction) == ToUpperCase(instruction[1])

\* This step is an execute_vm_step returning for an instruction with `opcode`.
Executes(opcode) ==
    /\ Executed'
    /\ lastResponse'.id # lastResponse.id
    /\ Opcode(lastResponse'.args.instruction) = opcode

\* C13: an execute_vm_step of an instruction with an unrecognized opcode
\* returns a normal result whose execution_result is "Unknown instruction:
\* <OPCODE>", pushes one record carrying that text, and leaves every register
\* and flag as it was.
C13_UnknownOpcodeIsRecorded ==
    [][Executes("FOO")
         => /\ ~lastResponse'.isError
            /\ lastResponse'.handler.value.execution_result = <<"Unknown instruction: ", "FOO">>
            /\ Len(executionHistory') = Len(executionHistory) + 1
            /\ executionHistory'[Len(executionHistory')].result
                  = <<"Unknown instruction: ", "FOO">>
            /\ SubSeq(executionHistory', 1, Len(executionHistory)) = executionHistory
            /\ vmState'.registers = vmState.registers
            /\ vmState'.flags = vmState.flags
            /\ lastResponse'.handler.value.registers = vmState.registers
            /\ lastResponse'.handler.value.flags = vmState.flags]_vars

C13_Witness ==
    /\ Executed
    /\ lastResponse.args.instruction = <<"FOO", "1">>
    /\ Len(executionHistory) = 2
    /\ executionHistory[2].state_after.ACC = 42
    /\ vmState.registers.ACC = 42

\* The number an operand numeral denotes, and whether the instruction has one.
HasOperand(instruction) == Len(instruction) >= 2 /\ instruction[2] \in DOMAIN Numerals
Operand(instruction) == Numerals[instruction[2]]

\* C14: LOAD v leaves v in ACC; ADD w leaves ACC + w in ACC, with register X
\* for w when the operand is omitted, and the zero flag equal to (ACC = 0);
\* initialize, LOAD 42, ADD 8 ends with ACC = 50 and the zero flag false.
C14_LoadThenAdd ==
    /\ [][Executes("LOAD") /\ HasOperand(lastResponse'.args.instruction)
             => vmState'.registers.ACC = Operand(lastResponse'.args.instruction)]_vars
    /\ [][Executes("ADD")
             => LET i == lastResponse'.args.instruction
                    w == IF HasOperand(i) THEN Operand(i) ELSE vmState.registers.X
                IN /\ vmState'.registers.ACC = vmState.registers.ACC + w
                   /\ vmState'.flags.zero = (vmState'.registers.ACC = 0)
                   /\ lastResponse'.handler.value.registers.ACC = vmState'.registers.ACC
                   /\ lastResponse'.handler.value.flags.zero = vmState'.flags.zero]_vars
    /\ []((/\ stats.resets = {0}
           /\ Len(executionHistory) = 2
           /\ executionHistory[1].instruction = <<"LOAD", "42">>
           /\ executionHistory[2].instruction = <<"ADD", "8">>)
             => /\ vmState.registers.ACC = 50
                /\ ~vmState.flags.zero)

C14_Witness ==
    /\ Executed
    /\ stats.resets = {0}
    /\ Len(executionHistory) = 2
    /\ executionHistory[1].instruction = <<"LOAD", "42">>
    /\ executionHistory[2].instruction = <<"ADD", "8">>
    /\ lastResponse.handler.value.registers.ACC = 50
    /\ lastResponse.handler.value.history_length = 2

Abs(n) == IF n < 0 THEN 0 - n ELSE n

\* C15: in the result of every ADD the overflow flag is true exactly when the
\* magnitude of ACC exceeds 255, for positive and for negative ACC.
C15_OverflowIsMagnitude ==
    (Executed /\ Opcode(lastResponse.args.instruction) = "ADD")
        => lastResponse.handler.value.flags.overflow
             = (Abs(lastResponse.handler.value.registers.ACC) > 255)

\* C16: SUB v leaves ACC - v in ACC, with register X for v when the operand
\* is omitted, and sets the zero flag to (ACC = 0) and the overflow flag to
\* (|ACC| > 255), as ADD does: neither flag keeps an earlier value.
C16_SubUpdatesBothFlags ==
    [][Executes("SUB")
         => LET i == lastResponse'.args.instruction
                v == IF HasOperand(i) THEN Operand(i) ELSE vmState.registers.X
            IN /\ vmState'.registers.ACC = vmState.registers.ACC - v
               /\ vmState'.flags.zero = (vmState'.registers.ACC = 0)
               /\ vmState'.flags.overflow = (Abs(vmState'.registers.ACC) > 255)]_vars

\* C25: CONSCIOUS leaves (Z + 1) mod 256 in Z and the consciousness flag set,
\* and changes no other register; Z stays within 0..255 and wraps from 255 to 0.
C25_ConsciousIncrementsZ ==
    /\ [][Executes("CONSCIOUS")
             => /\ vmState'.registers.Z = (vmState.registers.Z + 1) % 256
                /\ vmState.registers.Z = 255 => vmState'.registers.Z = 0
                /\ vmState'.flags.consciousness
                /\ \A r \in {"PC", "SP", "ACC", "X", "Y"} :
                      vmState'.registers[r] = vmState.registers[r]
                /\ lastResponse'.handler.value.registers = vmState'.registers
                /\ lastResponse'.handler.value.flags.consciousness]_vars
    /\ [](vmState.registers.Z \in 0..255)

\* Z was 255 and a CONSCIOUS step took it to 0, with ACC loaded in between.
C25_Witness ==
    /\ Executed
    /\ lastResponse.args.instruction = <<"CONSCIOUS">>
    /\ executionHistory[Len(executionHistory)].state_before.Z = 255
    /\ executionHistory[Len(executionHistory)].state_before.ACC = 5
    /\ vmState.registers.Z = 0
    /\ vmState.registers.ACC = 5

\* C26: for LOAD, ADD, SUB and JMP an operand that does not parse has the
\* effect of the operand 0, and an explicit 0 is the value 0: LOAD leaves 0 in
\* ACC, JMP leaves 0 in PC, ADD and SUB leave ACC as it was, and no other
\* register changes.
C26_UnparsableOperandIsZero ==
    [][\A opcode \in {"LOAD", "ADD", "SUB", "JMP"} :
          (/\ Executes(opcode)
           /\ LET i == lastResponse'.args.instruction
              IN ~HasOperand(i) \/ Operand(i) = 0)
             => /\ vmState'.registers =
                      CASE opcode = "LOAD" -> [vmState.registers EXCEPT !.ACC = 0]
                        [] opcode = "JMP" -> [vmState.registers EXCEPT !.PC = 0]
                        [] OTHER -> vmState.registers
                /\ lastResponse'.handler.value.registers = vmState'.registers
                /\ opcode \in {"ADD", "SUB"}
                      => vmState'.flags.zero = (vmState.registers.ACC = 0)]_vars

\* ADD with an operand that does not parse left the 5 in ACC.
C26_Witness ==
    /\ Executed
    /\ lastResponse.args.instruction = <<"ADD", "abc">>
    /\ executionHistory[Len(executionHistory)].state_before.ACC = 5
    /\ vmState.registers.ACC = 5
    /\ lastResponse.handler.value.execution_result = <<"Added ", 0, ", ACC = ", 5>>

\* C27 as claimed: in every state of an initialized VM the zero flag is true
\* exactly when ACC is 0, right after initialize_vm and after LOAD as well.
C27_ZeroFlagTracksAcc ==
    ~IsNull(vmState) => (vmState.flags.zero = (vmState.registers.ACC = 0))

\* C27: the zero flag is false in the state initialize_vm sets up, equals
\* (ACC = 0) right after every ADD and every SUB, and is left as it was by
\* LOAD, JMP, CONSCIOUS and an unknown instruction.
C27_ZeroFlagFollowsArithmetic ==
    /\ [](Initialized => ~vmState.flags.zero /\ vmState.registers.ACC = 0)
    /\ [][Executes("ADD") \/ Executes("SUB")
             => vmState'.flags.zero = (vmState'.registers.ACC = 0)]_vars
    /\ [][\A opcode \in {"LOAD", "JMP", "CONSCIOUS", "FOO"} :
             Executes(opcode) => vmState'.flags.zero = vmState.flags.zero]_vars

\* An ADD left ACC = 0 with the zero flag set, and the LOAD 42 after it left
\* the flag set with 42 in ACC.
C27_Witness ==
    /\ Executed
    /\ lastResponse.args.instruction = <<"LOAD", "42">>
    /\ Len(executionHistory) = 2
    /\ Opcode(executionHistory[1].instruction) = "ADD"
    /\ executionHistory[1].state_after.ACC = 0
    /\ vmState.registers.ACC = 42
    /\ vmState.flags.zero

\* A response to a call of tool `name` leaves the server in this step.
Answers(name) ==
    /\ lastResponse'.id # lastResponse.id
    /\ lastResponse'.method = "tools/call"
    /\ lastResponse'.name = name

\* C29: execute_vm_step never changes memory, stack, config or the registers
\* SP, X and Y, which are 0 in every state; it changes PC only by a JMP, ACC
\* only by a LOAD, ADD or SUB, Z only by a CONSCIOUS; run_uor_program changes
\* neither the VM state nor the history.
C29_FrameOfStepAndRun ==
    /\ [][Answers("execute_vm_step")
             => IF IsNull(vmState) \/ ~Executed' THEN vmState' = vmState
                ELSE LET opcode == Opcode(lastResponse'.args.instruction)
                         before == vmState.registers
                         after == vmState'.registers
                     IN /\ vmState'.memory = vmState.memory
                        /\ vmState'.stack = vmState.stack
                        /\ vmState'.config = vmState.config
                        /\ vmState'.initialized = vmState.initialized
                        /\ \A r \in {"SP", "X", "Y"} : after[r] = before[r]
                        /\ after.PC # before.PC => opcode = "JMP"
                        /\ after.ACC # before.ACC => opcode \in {"LOAD", "ADD", "SUB"}
                        /\ after.Z # before.Z => opcode = "CONSCIOUS"]_vars
    /\ [][Answers("run_uor_program")
             => vmState' = vmState /\ executionHistory' = executionHistory]_vars
    /\ [](~IsNull(vmState) => \A r \in {"SP", "X", "Y"} : vmState.registers[r] = 0)

\* A JMP has changed PC and nothing else, and a run of the fibonacci program
\* was answered with the VM in that state.
C29_Witness ==
    /\ lastResponse.name = "run_uor_program"
    /\ lastResponse.handler.kind = "return"
    /\ lastResponse.args.program = "fibonacci"
    /\ Len(executionHistory) = 1
    /\ executionHistory[1].instruction = <<"JMP", "5">>
    /\ lastResponse.handler.value.vm_state = vmState
    /\ vmState.registers = [InitialRegisters EXCEPT !.PC = 5]

\* The k-th Fibonacci number, counting from F(0) = 0.
RECURSIVE Fibonacci(_)
Fibonacci(k) == IF k < 2 THEN k ELSE Fibonacci(k - 1) + Fibonacci(k - 2)

\* C30: run_uor_program fibonacci {n} returns as result the first n Fibonacci
\* numbers, a list of length n, with n = 10 when n is omitted, whether or not
\* the VM is initialized and without a call upstream.
C30_FirstNFibonacci ==
    (/\ lastResponse.method = "tools/call"
     /\ lastResponse.name = "run_uor_program"
     /\ lastResponse.args.program = "fibonacci")
       => LET parameters == IF Has(lastResponse.args, "parameters")
                            THEN lastResponse.args.parameters ELSE EmptyObject
              n == IF Has(parameters, "n") THEN parameters.n ELSE 10
          IN /\ lastResponse.handler.kind = "return"
             /\ ~lastResponse.isError
             /\ lastResponse.handler.value.result = [i \in 1..n |-> Fibonacci(i - 1)]

\* C24: the state a successful initialize_vm sets up has all six registers
\* 0, all four flags false, a memory of memory_size zeros, an empty stack and
\* initialized true.
C24_InitializeZeroesEverything ==
    Initialized
        => LET state == lastResponse.handler.value.initial_state
           IN /\ \A r \in {"PC", "SP", "ACC", "X", "Y", "Z"} : state.registers[r] = 0
              /\ DOMAIN state.registers = {"PC", "SP", "ACC", "X", "Y", "Z"}
              /\ \A f \in {"zero", "carry", "overflow", "consciousness"} : ~state.flags[f]
              /\ state.memory = ZeroArray(state.config.memory_size)
              /\ state.stack = <<>>
              /\ state.initialized


CallIds == 1..MaxCalls
Made(c) == c <= Len(calls)
Pending(c) == Made(c) /\ calls[c].status = "pending"

\* The budget the constructor was given, 30000 ms when it was given none.
Budget == IF Has(lifecycle.given, "timeout") THEN lifecycle.given.timeout ELSE 30000

\* C6: a callTool whose response has isError=true throws; it does not return.
C6_ErrorResponseThrows ==
    \A c \in CallIds :
       (Made(c) /\ calls[c].got.id # 0 /\ calls[c].got.isError) => calls[c].status = "threw"

\* C7: a listTools or callTool made while the proxy is not connected (never
\* connected, connect failed, or disconnected) has thrown the not-connected
\* error by the time it is made, and sent no request.
C7_RejectsWhenNotConnected ==
    \A c \in CallIds :
       (Made(c) /\ calls[c].at \in {"new", "connect_failed", "disconnected"})
          => /\ calls[c].status = "threw"
             /\ calls[c].outcome = Throw(NotConnectedMessage)
             /\ calls[c].request = 0
             /\ calls[c].endedAt = calls[c].sentAt

C7_Witness ==
    /\ Len(calls) = 2
    /\ calls[1].at = "connect_failed"
    /\ calls[2].at = "disconnected"
    /\ calls[1].method # calls[2].method
    /\ calls[2].status = "threw"
    /\ lifecycle.messages = 0

TimedOut(c) == Made(c) /\ calls[c].outcome = Throw(TimeoutMessage)

\* C8: a call that awaits a response is not kept waiting past its budget, a
\* call that timed out did so when exactly its budget had elapsed, and every
\* awaited call eventually ends.
C8_TimesOutAtBudget ==
    /\ [](\A c \in CallIds :
            /\ Pending(c) => clock <= calls[c].sentAt + Budget
            /\ TimedOut(c) => calls[c].endedAt = calls[c].sentAt + Budget)
    /\ \A c \in CallIds : Pending(c) ~> ~Pending(c)

C8_Witness ==
    /\ Len(calls) = 2
    /\ TimedOut(1)
    /\ calls[1].endedAt = 30000
    /\ calls[1].method = "tools/call"
    /\ calls[2].status = "returned"

\* C9: a call that ended with a response ended with the response that carries
\* the id of its own request, and a response whose request is no longer
\* awaited ends no call.
C9_MatchedByRequestId ==
    /\ \A c \in CallIds :
          (Made(c) /\ calls[c].got.id # 0) => calls[c].got.id = calls[c].request
    /\ \A c \in CallIds : TimedOut(c) => calls[c].got.id = 0
    /\ \A c, d \in CallIds :
          (Made(c) /\ Made(d) /\ c # d /\ calls[c].request # 0)
             => calls[c].request # calls[d].request

C9_Witness ==
    /\ Len(calls) = 2
    /\ TimedOut(1)
    /\ lifecycle.dropped = 1
    /\ calls[2].status = "returned"
    /\ calls[2].got.id = 2
    /\ calls[2].sentAt < calls[1].endedAt

\* C19: every request the server holds was sent by one call, the number of
\* requests sent is the number of calls that passed the connection guard, and
\* a call that threw or timed out has sent no second request.
C19_AtMostOneRequestPerCall ==
    /\ \A m \in wire : \E c \in CallIds : Made(c) /\ calls[c].request = m.id
    /\ \A m, n \in wire : m.id = n.id => m = n
    /\ lifecycle.messages = Cardinality({c \in CallIds : Made(c) /\ calls[c].request # 0})
    /\ Cardinality(wire) + Cardinality({c \in CallIds : Made(c) /\ calls[c].got.id # 0})
          + lifecycle.dropped <= Len(calls)

C19_Witness ==
    /\ Len(calls) = 2
    /\ TimedOut(1)
    /\ calls[1].method = "tools/call"
    /\ calls[2].status = "returned"
    /\ lifecycle.messages = 2
    /\ \E m \in wire : wire = {m} /\ m.id = calls[1].request

----------------------------------------------------------------------------
(* Properties of connect() and disconnect() *)

\* C17: a connect() made while the proxy is connected spawns no process and
\* leaves the transport and the owned server process as they were.
C17_ConnectWhenConnected ==
    [][(isConnected /\ lifecycle'.connects # lifecycle.connects)
         => /\ processes' = processes
            /\ serverProcess' = serverProcess
            /\ transport' = transport]_vars

\* The proxy as disconnect() left it, nothing called since.
Disconnected == lifecycle.state = "disconnected" /\ op = "idle"

\* C18: after disconnect() the proxy is not connected, owns no server process
\* and every process it spawned has been killed; a disconnect() on a
\* disconnected proxy changes nothing.
C18_DisconnectReleasesEverything ==
    /\ [](Disconnected
            => /\ ~isConnected
               /\ IsNull(serverProcess)
               /\ \A pid \in DOMAIN processes : processes[pid] = "killed")
    /\ [][(Disconnected /\ Disconnected')
            => UNCHANGED <<isConnected, transport, serverProcess, processes, session>>]_vars

----------------------------------------------------------------------------
(* Properties of the terminal *)

\* This step reads the line `input`.
Reads(input) == lineCount' = lineCount + 1 /\ printed'.input = input

\* C22: every `llm` line switches the mode, from command mode to LLM mode and
\* from LLM mode back to command mode.
C22_LlmTogglesBothWays ==
    [][Reads(<<"llm">>) => llmMode' # llmMode]_vars

\* The requests of the awaited command, as the server holds or answered them.
Received ==
    {[name |-> h.name, args |-> h.args] : h \in {g \in handlers : g.id = awaiting.request}}
      \cup (IF lastResponse.id = awaiting.request
            THEN {[name |-> lastResponse.name, args |-> lastResponse.args]} ELSE {})

\* C23: the request a wrapper sends names the tool of its operation, and the
\* handler parameters the dispatcher takes from its arguments are the values
\* the wrapper was called with, in order.
C23_WrappersAreSugar ==
    awaiting # Null
        => /\ Cardinality(Received) = 1
           /\ \A r \in Received :
                 /\ r.name = Wrappers[awaiting.method].name
                 /\ r.name \in ListedNames
                 /\ HandlerArguments(r.name, r.args)
                       = [i \in 1..Len(awaiting.values) |-> Passed(awaiting.values[i])]

\* C28: vmInitialized holds only when the server's VM is initialized, a step
\* reaches the server only then, and the success messages of init and step
\* are printed only for a call the server answered without error.
C28_TerminalTracksServer ==
    /\ vmInitialized => ~IsNull(vmState)
    /\ \A h \in handlers : h.name = "execute_vm_step" => ~IsNull(h.seen)
    /\ lastResponse.name = "execute_vm_step"
          => lastResponse.handler # Throw(NotInitializedMessage)
    /\ printed.text \in {InitializeSucceeded, StepSucceeded} => ~lastResponse.isError

====
